---- MODULE Spec2Model ----
(***************************************************************************)
(* A model of package logger (src/logger.go): a JSON line logger with a    *)
(* severity threshold, contextual fields, a configurable sink, and a       *)
(* process-wide default instance.                                          *)
(*                                                                         *)
(* The heap is explicit.  A *Logger is an index into loggers, a Fields map *)
(* (a Go map, i.e. a reference) is an index into maps, and the inner       *)
(* *log.Logger is an index into stdlogs, so that sharing between a logger  *)
(* and its clone is something the model can express.                       *)
(*                                                                         *)
(* Spec     : one caller; every method call is one atomic action.          *)
(* SpecConc : several goroutines; every method is split at its lock        *)
(*            operations and at each access to a shared field.             *)
(***************************************************************************)
EXTENDS Integers, Sequences, FiniteSets, TLC

VARIABLES
    loggers,   \* heap of Logger structs: level, logger, fields, output, timeFormat
    mu,        \* mu[l]: the goroutine holding loggers[l].mu, 0 when unlocked
    stdlogs,   \* heap of log.Logger objects: the writer each one holds
    maps,      \* heap of Fields maps
    sinks,     \* the io.Writers: the lines written to each so far
    proc,      \* the process: running, exited (os.Exit) or panicking
    ncalls,    \* number of calls made so far; also the reading of the clock
    last,      \* the call completed last (history, sequential specification)
    thr        \* the goroutines of the concurrent specification

vars == <<loggers, mu, stdlogs, maps, sinks, proc, ncalls, last, thr>>

----------------------------------------------------------------------------
(* Bounds *)

MaxCalls == 3        \* calls made by the single caller of Spec
MaxOps == 2          \* calls started, over all goroutines, in SpecConc

----------------------------------------------------------------------------
(* LogLevel *)

LevelDebug == 0
LevelInfo == 1
LevelWarn == 2
LevelError == 3
LevelFatal == 4
LevelPanic == 5

Levels == LevelDebug .. LevelPanic

levelNames ==
    [l \in Levels |->
        CASE l = LevelDebug -> "DEBUG"
          [] l = LevelInfo  -> "INFO"
          [] l = LevelWarn  -> "WARN"
          [] l = LevelError -> "ERROR"
          [] l = LevelFatal -> "FATAL"
          [] l = LevelPanic -> "PANIC"]

String(l) == IF l \in DOMAIN levelNames THEN levelNames[l] ELSE "UNKNOWN"

----------------------------------------------------------------------------
(* Values (interface{}) and Fields (map[string]interface{}) *)

Str(s) == [kind |-> "string", s |-> s]
Chan == [kind |-> "chan", s |-> "int"]      \* a value json.Marshal rejects

FieldKeys == {"level", "req_id"}
FieldValues == {Str("abc123"), Chan}
FieldMaps == UNION {[D -> FieldValues] : D \in SUBSET FieldKeys}
EmptyFields == [k \in {} |-> Chan]

Messages == {"hello"}
Sinks == {"stdout", "buffer"}
DefaultTimeFormat == "2006-01-02 15:04:05"
TimeFormats == {DefaultTimeFormat, "15:04:05"}

\* m[k] = v on a Go map
Put(m, k, v) == [x \in (DOMAIN m) \cup {k} |-> IF x = k THEN v ELSE m[x]]

\* (a range loop that skips the keys dst already holds)
OverlayKeepExisting(dst, src) ==
    [x \in (DOMAIN dst) \cup (DOMAIN src) |-> IF x \in DOMAIN dst THEN dst[x] ELSE src[x]]

\* for k, v := range src { dst[k] = v }
Overlay(dst, src) ==
    [x \in (DOMAIN dst) \cup (DOMAIN src) |-> IF x \in DOMAIN src THEN src[x] ELSE dst[x]]

----------------------------------------------------------------------------
(* time.Now().Format(layout): the clock reads t seconds past 15:04:00 on    *)
(* 2024-01-02; the layout decides which parts are rendered.                *)

Format(layout, t) ==
    IF layout = DefaultTimeFormat
    THEN "2024-01-02 15:04:0" \o ToString(t)
    ELSE "15:04:0" \o ToString(t)

----------------------------------------------------------------------------
(* encoding/json on a map[string]interface{}: members sorted by key, each  *)
(* string value a JSON string; a channel is an unsupported type.           *)

KeyOrder == <<"level", "message", "req_id", "time">>

RECURSIVE Members(_, _)
Members(entry, i) ==
    IF i > Len(KeyOrder) THEN <<>>
    ELSE IF KeyOrder[i] \in DOMAIN entry
         THEN <<[key |-> KeyOrder[i], str |-> entry[KeyOrder[i]].s]>> \o Members(entry, i + 1)
         ELSE Members(entry, i + 1)

Marshal(entry) ==
    IF \E k \in DOMAIN entry : entry[k].kind = "chan"
    THEN [err |-> "json: unsupported type: chan int", data |-> <<>>]
    ELSE [err |-> "", data |-> Members(entry, 1)]

\* what a JSON parser makes of a line written by the normal path
Parse(line) ==
    [k \in {line.body[i].key : i \in 1 .. Len(line.body)} |->
        (CHOOSE i \in 1 .. Len(line.body) : line.body[i].key = k) ]

ParsedValue(line, k) == line.body[Parse(line)[k]].str

JsonLine(data) == [kind |-> "json", body |-> data]

\* fmt.Sprintf of the fallback record: literal text around the two %s verbs
FallbackLine(errText, time) ==
    [kind |-> "text",
     body |-> <<"{\"level\": \"ERROR\",\"message\": \"Failed to marshal log entry\",\"error\": \"",
                errText, "\",\"time\": \"", time, "\"}">>]

----------------------------------------------------------------------------
(* Logger *)

Logger(level, inner, output, timeFormat, fields) ==
    [level |-> level, logger |-> inner, output |-> output,
     timeFormat |-> timeFormat, fields |-> fields]

Running == proc.status = "running"

NoCall == [op |-> "none", recv |-> 0, level |-> 0, msg |-> "", key |-> "",
           value |-> Chan, fields |-> EmptyFields, out |-> "", fmt |-> "", ret |-> 0]

\* a goroutine: where it is in which call, the call's arguments and locals
Idle == [pc |-> "idle", op |-> "none", recv |-> 0, level |-> 0, msg |-> "",
         todo |-> EmptyFields, arg |-> EmptyFields, out |-> "", fmt |-> "",
         tmp |-> Logger(0, 0, "", "", 0), snap |-> Logger(0, 0, "", "", 0),
         snapFields |-> EmptyFields, entry |-> EmptyFields,
         line |-> [kind |-> "none", body |-> <<>>], ret |-> 0]

Threads == {1, 2}

\* var defaultLogger = New(os.Stdout)
defaultLogger == 1

New(output) ==
    /\ loggers = <<Logger(LevelInfo, 1, output, DefaultTimeFormat, 1)>>
    /\ mu = <<0>>
    /\ stdlogs = <<output>>
    /\ maps = <<EmptyFields>>

Init ==
    /\ New("stdout")
    /\ sinks = [w \in Sinks |-> <<>>]
    /\ proc = [status |-> "running", code |-> 0, value |-> ""]
    /\ ncalls = 0
    /\ last = NoCall
    /\ thr = [t \in Threads |-> Idle]

----------------------------------------------------------------------------
(* The pieces of the methods, shared by both specifications *)

\* (the comparison written "level <= l.level")
PassesStrict(level, threshold) == ~(level <= threshold)

\* log: "if level < l.level { return }"
Passes(level, threshold) == ~(level < threshold)

\* (the context fields laid down first, the reserved keys written over them)
BuildEntryReservedLast(level, msg, time, fields) ==
    Overlay(fields,
            [k \in {"level", "message", "time"} |->
                CASE k = "level"   -> Str(String(level))
                  [] k = "message" -> Str(msg)
                  [] k = "time"    -> Str(time)])

\* log: the entry literal, then "for k, v := range l.fields { entry[k] = v }"
BuildEntry(level, msg, time, fields) ==
    Overlay([k \in {"level", "message", "time"} |->
                CASE k = "level"   -> Str(String(level))
                  [] k = "message" -> Str(msg)
                  [] k = "time"    -> Str(time)],
            fields)

\* (the error of json.Marshal ignored)
LogLineIgnoreErr(entry, timeFormat, t) == JsonLine(Marshal(entry).data)

\* log: json.Marshal(entry), and the line either branch hands to fmt.Fprintln
LogLine(entry, timeFormat, t) ==
    LET r == Marshal(entry)
    IN  IF r.err # ""
        THEN FallbackLine(r.err, Format(timeFormat, t))
        ELSE JsonLine(r.data)

\* (the line handed to the inner log.Logger's writer)
WriterInner(lg) == stdlogs[lg.logger]

\* log: the writer both branches write to, "fmt.Fprintln(l.output, ...)"
Writer(lg) == lg.output

\* fmt.Fprintln(w, line): the line and its newline reach the writer; the
\* error result of the write is dropped by the caller
Fprintln(w, line) == [sinks EXCEPT ![w] = Append(@, line)]

\* (the receiver's map handed to the new Logger, "fields: l.fields")
CloneFieldsShared(l) == loggers[l].fields

\* clone: "fields := make(Fields)", the reference the new Logger gets
CloneFieldsRef(l) == Len(maps) + 1

\* clone: the new Logger struct (its mu is a zero Mutex)
CloneStruct(lg, ref) == Logger(lg.level, lg.logger, lg.output, lg.timeFormat, ref)

----------------------------------------------------------------------------
(* Spec: one caller, one action per call *)

CanCall == Running /\ ncalls < MaxCalls

Call(op, l) == [NoCall EXCEPT !.op = op, !.recv = l]

Called(c) ==
    /\ ncalls' = ncalls + 1
    /\ last' = c
    /\ UNCHANGED thr

\* (the level accumulated, "l.level += level")
SetLevelAdd(lg, level) == [lg EXCEPT !.level = (lg.level + level) % (LevelPanic + 1)]

\* SetLevel: "l.level = level"
SetLevelWrite(lg, level) == [lg EXCEPT !.level = level]

SetLevel(l, level) ==
    /\ CanCall
    /\ loggers' = [loggers EXCEPT ![l] = SetLevelWrite(@, level)]
    /\ Called([Call("SetLevel", l) EXCEPT !.level = level, !.ret = l])
    /\ UNCHANGED <<mu, stdlogs, maps, sinks, proc>>

SetOutput(l, output) ==
    /\ CanCall
    /\ loggers' = [loggers EXCEPT ![l].output = output]
    /\ stdlogs' = [stdlogs EXCEPT ![loggers[l].logger] = output]
    /\ Called([Call("SetOutput", l) EXCEPT !.out = output, !.ret = l])
    /\ UNCHANGED <<mu, maps, sinks, proc>>

SetTimeFormat(l, format) ==
    /\ CanCall
    /\ loggers' = [loggers EXCEPT ![l].timeFormat = format]
    /\ Called([Call("SetTimeFormat", l) EXCEPT !.fmt = format, !.ret = l])
    /\ UNCHANGED <<mu, stdlogs, maps, sinks, proc>>

\* newLogger := l.clone(), then the writes into newLogger.fields
Derive(l, fields) ==
    LET ref == CloneFieldsRef(l)
        copied == Append(maps, Overlay(EmptyFields, maps[loggers[l].fields]))
    IN  /\ maps' = [copied EXCEPT ![ref] = Overlay(@, fields)]
        /\ loggers' = Append(loggers, CloneStruct(loggers[l], ref))
        /\ mu' = Append(mu, 0)

AddField(l, key, value) ==
    /\ CanCall
    /\ Derive(l, Put(EmptyFields, key, value))
    /\ Called([Call("AddField", l) EXCEPT !.key = key, !.value = value,
                                          !.ret = Len(loggers) + 1])
    /\ UNCHANGED <<stdlogs, sinks, proc>>

AddFields(l, fields) ==
    /\ CanCall
    /\ Derive(l, fields)
    /\ Called([Call("AddFields", l) EXCEPT !.fields = fields, !.ret = Len(loggers) + 1])
    /\ UNCHANGED <<stdlogs, sinks, proc>>

log(l, level, msg) ==
    LET lg == loggers[l]
    IN  sinks' =
            IF Passes(level, lg.level)
            THEN Fprintln(Writer(lg),
                          LogLine(BuildEntry(level, msg, Format(lg.timeFormat, ncalls),
                                             maps[lg.fields]),
                                  lg.timeFormat, ncalls))
            ELSE sinks

Emit(op, l, level, msg) ==
    /\ CanCall
    /\ log(l, level, msg)
    /\ Called([Call(op, l) EXCEPT !.level = level, !.msg = msg])
    /\ UNCHANGED <<loggers, mu, stdlogs, maps>>

Debug(l, msg) == Emit("Debug", l, LevelDebug, msg) /\ UNCHANGED proc
Info(l, msg) == Emit("Info", l, LevelInfo, msg) /\ UNCHANGED proc
Warn(l, msg) == Emit("Warn", l, LevelWarn, msg) /\ UNCHANGED proc
Error(l, msg) == Emit("Error", l, LevelError, msg) /\ UNCHANGED proc

\* (the process left with the status of a success)
ExitZero(code) == [status |-> "exited", code |-> 0, value |-> ""]

\* os.Exit(1)
Exit(code) == [status |-> "exited", code |-> code, value |-> ""]

Fatal(l, msg) ==
    /\ Emit("Fatal", l, LevelFatal, msg)
    /\ proc' = Exit(1)

Panic(l, msg) ==
    /\ Emit("Panic", l, LevelPanic, msg)
    /\ proc' = [status |-> "panicking", code |-> 0, value |-> msg]

\* the caller's deferred recover(), when it has one, takes the panic value
Recover ==
    /\ proc.status = "panicking"
    /\ proc' = [status |-> "running", code |-> 0, value |-> ""]
    /\ UNCHANGED <<loggers, mu, stdlogs, maps, sinks, ncalls, last, thr>>

\* the package-level functions forward to defaultLogger
PkgSetLevel(level) == SetLevel(defaultLogger, level)
PkgSetOutput(w) == SetOutput(defaultLogger, w)
PkgSetTimeFormat(format) == SetTimeFormat(defaultLogger, format)
PkgAddField(key, value) == AddField(defaultLogger, key, value)
PkgAddFields(fields) == AddFields(defaultLogger, fields)
PkgDebug(msg) == Debug(defaultLogger, msg)
PkgInfo(msg) == Info(defaultLogger, msg)
PkgWarn(msg) == Warn(defaultLogger, msg)
PkgError(msg) == Error(defaultLogger, msg)
PkgFatal(msg) == Fatal(defaultLogger, msg)
PkgPanic(msg) == Panic(defaultLogger, msg)

Next ==
    \/ \E l \in DOMAIN loggers, level \in Levels : SetLevel(l, level)
    \/ \E l \in DOMAIN loggers, w \in Sinks : SetOutput(l, w)
    \/ \E l \in DOMAIN loggers, f \in TimeFormats : SetTimeFormat(l, f)
    \/ \E l \in DOMAIN loggers, k \in FieldKeys, v \in FieldValues : AddField(l, k, v)
    \/ \E l \in DOMAIN loggers, fs \in FieldMaps : AddFields(l, fs)
    \/ \E l \in DOMAIN loggers, m \in Messages : Debug(l, m)
    \/ \E l \in DOMAIN loggers, m \in Messages : Info(l, m)
    \/ \E l \in DOMAIN loggers, m \in Messages : Warn(l, m)
    \/ \E l \in DOMAIN loggers, m \in Messages : Error(l, m)
    \/ \E l \in DOMAIN loggers, m \in Messages : Fatal(l, m)
    \/ \E l \in DOMAIN loggers, m \in Messages : Panic(l, m)
    \/ Recover
    \/ \E level \in Levels : PkgSetLevel(level)
    \/ \E w \in Sinks : PkgSetOutput(w)
    \/ \E f \in TimeFormats : PkgSetTimeFormat(f)
    \/ \E k \in FieldKeys, v \in FieldValues : PkgAddField(k, v)
    \/ \E fs \in FieldMaps : PkgAddFields(fs)
    \/ \E m \in Messages : PkgDebug(m)
    \/ \E m \in Messages : PkgInfo(m)
    \/ \E m \in Messages : PkgWarn(m)
    \/ \E m \in Messages : PkgError(m)
    \/ \E m \in Messages : PkgFatal(m)
    \/ \E m \in Messages : PkgPanic(m)

Spec == Init /\ [][Next]_vars

----------------------------------------------------------------------------
(* SpecConc: goroutines calling the methods concurrently.  A method is one *)
(* step per lock operation and per access to a field of a Logger, to a     *)
(* Fields map or to a writer; the steps of different goroutines interleave.*)

CanStart(t, l) ==
    /\ Running
    /\ ncalls < MaxOps
    /\ thr[t].pc = "idle"
    \* idle goroutines are interchangeable: the lowest-numbered one takes the call
    /\ \A u \in Threads : u < t => thr[u].pc # "idle"
    \* a logger is a receiver once the call that made it has returned
    /\ ~\E u \in Threads : thr[u].ret = l

Started(t, r) ==
    /\ thr' = [thr EXCEPT ![t] = r]
    /\ ncalls' = ncalls + 1
    /\ UNCHANGED <<loggers, mu, stdlogs, maps, sinks, proc, last>>

GoSetLevel(t, l, level) ==
    /\ CanStart(t, l)
    /\ Started(t, [Idle EXCEPT !.pc = "lock", !.op = "SetLevel", !.recv = l, !.level = level])

GoSetOutput(t, l, output) ==
    /\ CanStart(t, l)
    /\ Started(t, [Idle EXCEPT !.pc = "lock", !.op = "SetOutput", !.recv = l, !.out = output])

GoSetTimeFormat(t, l, format) ==
    /\ CanStart(t, l)
    /\ Started(t, [Idle EXCEPT !.pc = "lock", !.op = "SetTimeFormat", !.recv = l, !.fmt = format])

\* AddField and AddFields run the same steps: clone, then one write per entry
GoAddField(t, l, key, value) ==
    /\ CanStart(t, l)
    /\ Started(t, [Idle EXCEPT !.pc = "lock", !.op = "derive", !.recv = l,
                               !.arg = Put(EmptyFields, key, value),
                               !.todo = Put(EmptyFields, key, value)])

GoAddFields(t, l, fields) ==
    /\ CanStart(t, l)
    /\ Started(t, [Idle EXCEPT !.pc = "lock", !.op = "derive", !.recv = l,
                               !.arg = fields, !.todo = fields])

\* Debug, Info, Warn, Error, Fatal, Panic: each calls l.log with its level
GoEmit(t, l, level, msg) ==
    /\ CanStart(t, l)
    /\ Started(t, [Idle EXCEPT !.pc = "log_level", !.op = String(level), !.recv = l,
                               !.level = level, !.msg = msg])

At(t, pc) == Running /\ thr[t].pc = pc

Goto(t, pc) == thr' = [thr EXCEPT ![t].pc = pc]

\* (a Lock that does not wait for the holder)
CanLockAlways(l) == TRUE

\* sync.Mutex: Lock returns only when no goroutine holds the mutex
CanLock(l) == mu[l] = 0

\* l.mu.Lock(); the receiver's configuration at that instant is kept as history
Lock(t) ==
    /\ At(t, "lock")
    /\ CanLock(thr[t].recv)
    /\ mu' = [mu EXCEPT ![thr[t].recv] = t]
    /\ thr' = [thr EXCEPT ![t].pc = CASE thr[t].op = "SetLevel" -> "setlevel"
                                      [] thr[t].op = "SetOutput" -> "setoutput"
                                      [] thr[t].op = "SetTimeFormat" -> "settimeformat"
                                      [] OTHER -> "clone_fields",
                          ![t].snap = loggers[thr[t].recv],
                          ![t].snapFields = maps[loggers[thr[t].recv].fields]]
    /\ UNCHANGED <<loggers, stdlogs, maps, sinks, proc, ncalls, last>>

\* defer l.mu.Unlock(), and the return
Unlock(t) ==
    /\ At(t, "unlock")
    /\ mu' = [mu EXCEPT ![thr[t].recv] = IF @ = t THEN 0 ELSE @]
    /\ thr' = [thr EXCEPT ![t] = Idle]
    /\ UNCHANGED <<loggers, stdlogs, maps, sinks, proc, ncalls, last>>

\* l.level = level
SetLevel_write(t) ==
    /\ At(t, "setlevel")
    /\ loggers' = [loggers EXCEPT ![thr[t].recv] = SetLevelWrite(@, thr[t].level)]
    /\ Goto(t, "unlock")
    /\ UNCHANGED <<mu, stdlogs, maps, sinks, proc, ncalls, last>>

\* l.output = output
SetOutput_write(t) ==
    /\ At(t, "setoutput")
    /\ loggers' = [loggers EXCEPT ![thr[t].recv].output = thr[t].out]
    /\ Goto(t, "setoutput_inner")
    /\ UNCHANGED <<mu, stdlogs, maps, sinks, proc, ncalls, last>>

\* l.logger.SetOutput(output)
SetOutput_inner(t) ==
    /\ At(t, "setoutput_inner")
    /\ stdlogs' = [stdlogs EXCEPT ![loggers[thr[t].recv].logger] = thr[t].out]
    /\ Goto(t, "unlock")
    /\ UNCHANGED <<loggers, mu, maps, sinks, proc, ncalls, last>>

\* l.timeFormat = format
SetTimeFormat_write(t) ==
    /\ At(t, "settimeformat")
    /\ loggers' = [loggers EXCEPT ![thr[t].recv].timeFormat = thr[t].fmt]
    /\ Goto(t, "unlock")
    /\ UNCHANGED <<mu, stdlogs, maps, sinks, proc, ncalls, last>>

\* clone: fields := make(Fields); for k, v := range l.fields { fields[k] = v }
clone_fields(t) ==
    /\ At(t, "clone_fields")
    /\ maps' = Append(maps, Overlay(EmptyFields, maps[loggers[thr[t].recv].fields]))
    /\ thr' = [thr EXCEPT ![t].pc = "clone_level", ![t].tmp.fields = CloneFieldsRef(thr[t].recv)]
    /\ UNCHANGED <<loggers, mu, stdlogs, sinks, proc, ncalls, last>>

\* clone: "level: l.level, logger: l.logger"
clone_level(t) ==
    /\ At(t, "clone_level")
    /\ thr' = [thr EXCEPT ![t].pc = "clone_output",
                          ![t].tmp.level = loggers[thr[t].recv].level,
                          ![t].tmp.logger = loggers[thr[t].recv].logger]
    /\ UNCHANGED <<loggers, mu, stdlogs, maps, sinks, proc, ncalls, last>>

\* clone: "output: l.output"
clone_output(t) ==
    /\ At(t, "clone_output")
    /\ thr' = [thr EXCEPT ![t].pc = "clone_timeFormat",
                          ![t].tmp.output = loggers[thr[t].recv].output]
    /\ UNCHANGED <<loggers, mu, stdlogs, maps, sinks, proc, ncalls, last>>

\* clone: "timeFormat: l.timeFormat", and the new Logger is allocated
clone_timeFormat(t) ==
    /\ At(t, "clone_timeFormat")
    /\ loggers' = Append(loggers,
                         CloneStruct([thr[t].tmp EXCEPT !.timeFormat =
                                          loggers[thr[t].recv].timeFormat],
                                     thr[t].tmp.fields))
    /\ mu' = Append(mu, 0)
    /\ thr' = [thr EXCEPT ![t].pc = IF DOMAIN thr[t].todo = {} THEN "unlock" ELSE "put",
                          ![t].ret = Len(loggers) + 1]
    /\ UNCHANGED <<stdlogs, maps, sinks, proc, ncalls, last>>

\* newLogger.fields[k] = v, once for AddField, once per entry for AddFields
put(t, k) ==
    /\ At(t, "put")
    /\ k \in DOMAIN thr[t].todo
    /\ maps' = [maps EXCEPT ![loggers[thr[t].ret].fields] = Put(@, k, thr[t].todo[k])]
    /\ thr' = [thr EXCEPT ![t].pc = IF DOMAIN thr[t].todo = {k} THEN "unlock" ELSE "put",
                          ![t].todo = [x \in (DOMAIN thr[t].todo) \ {k} |-> thr[t].todo[x]]]
    /\ UNCHANGED <<loggers, mu, stdlogs, sinks, proc, ncalls, last>>

\* what follows the return of l.log in the calling method
AfterLog(t) ==
    CASE thr[t].level = LevelFatal -> "exit"
      [] thr[t].level = LevelPanic -> "panic"
      [] OTHER -> "idle"

Return(t, pc) == thr' = [thr EXCEPT ![t] = IF pc = "idle" THEN Idle ELSE [@ EXCEPT !.pc = pc]]

\* log: "if level < l.level { return }", l.level read without the lock
log_level(t) ==
    /\ At(t, "log_level")
    /\ IF Passes(thr[t].level, loggers[thr[t].recv].level)
       THEN Goto(t, "log_time")
       ELSE Return(t, AfterLog(t))
    /\ UNCHANGED <<loggers, mu, stdlogs, maps, sinks, proc, ncalls, last>>

\* log: the entry literal, l.timeFormat read without the lock
log_time(t) ==
    /\ At(t, "log_time")
    /\ thr' = [thr EXCEPT ![t].pc = "log_fields",
                          ![t].entry = BuildEntry(thr[t].level, thr[t].msg,
                                           Format(loggers[thr[t].recv].timeFormat, ncalls),
                                           EmptyFields)]
    /\ UNCHANGED <<loggers, mu, stdlogs, maps, sinks, proc, ncalls, last>>

\* log: "for k, v := range l.fields { entry[k] = v }", then json.Marshal(entry)
log_fields(t) ==
    /\ At(t, "log_fields")
    /\ LET entry == Overlay(thr[t].entry, maps[loggers[thr[t].recv].fields])
       IN  thr' = [thr EXCEPT ![t].pc = IF Marshal(entry).err # "" THEN "log_errtime"
                                        ELSE "log_write",
                              ![t].entry = entry,
                              ![t].line = JsonLine(Marshal(entry).data)]
    /\ UNCHANGED <<loggers, mu, stdlogs, maps, sinks, proc, ncalls, last>>

\* log: the fallback record, l.timeFormat read again
log_errtime(t) ==
    /\ At(t, "log_errtime")
    /\ thr' = [thr EXCEPT ![t].pc = "log_write",
                          ![t].line = LogLine(thr[t].entry,
                                              loggers[thr[t].recv].timeFormat, ncalls)]
    /\ UNCHANGED <<loggers, mu, stdlogs, maps, sinks, proc, ncalls, last>>

\* log: fmt.Fprintln(l.output, ...), l.output read without the lock
log_write(t) ==
    /\ At(t, "log_write")
    /\ sinks' = Fprintln(Writer(loggers[thr[t].recv]), thr[t].line)
    /\ Return(t, AfterLog(t))
    /\ UNCHANGED <<loggers, mu, stdlogs, maps, proc, ncalls, last>>

\* Fatal: os.Exit(1) ends every goroutine
Fatal_exit(t) ==
    /\ At(t, "exit")
    /\ proc' = Exit(1)
    /\ UNCHANGED <<loggers, mu, stdlogs, maps, sinks, ncalls, last, thr>>

\* Panic: panic(msg), which no one recovers in this goroutine
Panic_panic(t) ==
    /\ At(t, "panic")
    /\ proc' = [status |-> "panicking", code |-> 0, value |-> thr[t].msg]
    /\ UNCHANGED <<loggers, mu, stdlogs, maps, sinks, ncalls, last, thr>>

NextConc ==
    \E t \in Threads :
        \/ \E l \in DOMAIN loggers, level \in Levels : GoSetLevel(t, l, level)
        \/ \E l \in DOMAIN loggers, w \in Sinks : GoSetOutput(t, l, w)
        \/ \E l \in DOMAIN loggers, f \in TimeFormats : GoSetTimeFormat(t, l, f)
        \/ \E l \in DOMAIN loggers, k \in FieldKeys, v \in FieldValues : GoAddField(t, l, k, v)
        \/ \E l \in DOMAIN loggers, fs \in FieldMaps : GoAddFields(t, l, fs)
        \/ \E l \in DOMAIN loggers, level \in Levels, m \in Messages : GoEmit(t, l, level, m)
        \/ Lock(t)
        \/ Unlock(t)
        \/ SetLevel_write(t)
        \/ SetOutput_write(t)
        \/ SetOutput_inner(t)
        \/ SetTimeFormat_write(t)
        \/ clone_fields(t)
        \/ clone_level(t)
        \/ clone_output(t)
        \/ clone_timeFormat(t)
        \/ \E k \in FieldKeys : put(t, k)
        \/ log_level(t)
        \/ log_time(t)
        \/ log_fields(t)
        \/ log_errtime(t)
        \/ log_write(t)
        \/ Fatal_exit(t)
        \/ Panic_panic(t)

SpecConc == Init /\ [][NextConc]_vars

----------------------------------------------------------------------------
(* Vocabulary of the properties of Spec.  A step that completes a call     *)
(* increments ncalls and records the call in last, so in an action formula *)
(* last' is the call made by the step and last the call before it.         *)

Emissions == {"Debug", "Info", "Warn", "Error", "Fatal", "Panic"}
Derivations == {"AddField", "AddFields"}
Setters == {"SetLevel", "SetOutput", "SetTimeFormat"}
Reserved == {"level", "message", "time"}

Stepped == ncalls' = ncalls + 1

\* the severity and the display name the documentation gives each call
SeverityOf(op) ==
    CASE op = "Debug" -> 0 [] op = "Info" -> 1 [] op = "Warn" -> 2
      [] op = "Error" -> 3 [] op = "Fatal" -> 4 [] op = "Panic" -> 5

DisplayName(op) ==
    CASE op = "Debug" -> "DEBUG" [] op = "Info" -> "INFO" [] op = "Warn" -> "WARN"
      [] op = "Error" -> "ERROR" [] op = "Fatal" -> "FATAL" [] op = "Panic" -> "PANIC"

WroteNothing == sinks' = sinks

WroteOne(w) ==
    /\ Len(sinks'[w]) = Len(sinks[w]) + 1
    /\ SubSeq(sinks'[w], 1, Len(sinks[w])) = sinks[w]
    /\ \A x \in Sinks \ {w} : sinks'[x] = sinks[x]

NewLine(w) == sinks'[w][Len(sinks'[w])]

TotalLines == Len(sinks["stdout"]) + Len(sinks["buffer"])

\* the fields argument of a derivation call; AddField is the one-entry map
ArgFields(c) == IF c.op = "AddField" THEN [k \in {c.key} |-> c.value] ELSE c.fields

FieldsOf(l) == maps[loggers[l].fields]

HasUnencodable(fs) == \E k \in DOMAIN fs : fs[k].kind = "chan"

IsFallback(line, time) ==
    /\ line.kind = "text"
    /\ line.body =
         <<"{\"level\": \"ERROR\",\"message\": \"Failed to marshal log entry\",\"error\": \"",
           "json: unsupported type: chan int", "\",\"time\": \"", time, "\"}">>

----------------------------------------------------------------------------
\* C1: SetLevel makes its argument the threshold in force; an emission call
\* at a severity at or above the threshold in force appends exactly one line
\* to the logger's sink, and one below it appends nothing.
C1_ThresholdFilter ==
    [][ /\ (Stepped /\ last'.op = "SetLevel") =>
              /\ loggers'[last'.recv].level = last'.level
              /\ WroteNothing
        /\ (Stepped /\ last'.op \in Emissions) =>
              IF SeverityOf(last'.op) >= loggers[last'.recv].level
              THEN WroteOne(loggers[last'.recv].output)
              ELSE WroteNothing
      ]_vars

\* SetLevel(Warn), a call that wrote nothing, then Warn: one line in the sink
C1_Witness ==
    /\ last.op = "Warn"
    /\ loggers[last.recv].level = LevelWarn
    /\ ncalls = 3
    /\ TotalLines = 1
    /\ Len(loggers) = 1

\* C2: AddField and AddFields leave every existing logger (threshold, sink,
\* time format, field set) and the sinks as they were, and a line a logger
\* emits carries no key outside the reserved ones and its own field set.
C2_DeriveLeavesReceiver ==
    [][ /\ (Stepped /\ last'.op \in Derivations) =>
              /\ \A l \in DOMAIN loggers :
                    /\ loggers'[l] = loggers[l]
                    /\ maps'[loggers[l].fields] = FieldsOf(l)
              /\ stdlogs' = stdlogs
              /\ WroteNothing
        /\ (Stepped /\ last'.op \in Emissions /\ ~WroteNothing) =>
              LET line == NewLine(loggers[last'.recv].output)
              IN  line.kind = "json" =>
                    (DOMAIN Parse(line)) \ Reserved \subseteq DOMAIN FieldsOf(last'.recv)
      ]_vars

\* the default logger emits after a logger with req_id was derived from it
C2_Witness ==
    /\ last.op \in Emissions
    /\ last.recv = defaultLogger
    /\ Len(loggers) >= 2
    /\ "req_id" \in DOMAIN FieldsOf(2)
    /\ FieldsOf(defaultLogger) = EmptyFields
    /\ TotalLines >= 1

\* C3: the logger returned by AddFields(F) on a receiver with field set R has
\* the keys of R and F, each valued from F when F has it, else from R; and
\* the logger returned by AddFields(F1).AddFields(F2) has the keys of R, F1
\* and F2, each valued from F2, else F1, else R.
C3_AddFieldsMerge ==
    [][ (Stepped /\ last'.op \in Derivations) =>
            LET F2 == ArgFields(last')
                got == maps'[loggers'[last'.ret].fields]
                R1 == FieldsOf(last'.recv)
            IN  /\ got = [k \in (DOMAIN R1) \cup (DOMAIN F2) |->
                            IF k \in DOMAIN F2 THEN F2[k] ELSE R1[k]]
                /\ (last.op \in Derivations /\ last.ret = last'.recv) =>
                      LET F1 == ArgFields(last)
                          R == FieldsOf(last.recv)
                      IN  got = [k \in (DOMAIN R) \cup (DOMAIN F1) \cup (DOMAIN F2) |->
                                    IF k \in DOMAIN F2 THEN F2[k]
                                    ELSE IF k \in DOMAIN F1 THEN F1[k] ELSE R[k]]
      ]_vars

\* a chain whose second map overwrites a key of the first and adds another
C3_Witness ==
    /\ last.op = "AddFields"
    /\ last.recv = 2
    /\ last.ret = 3
    /\ \E k \in (DOMAIN FieldsOf(2)) \cap (DOMAIN last.fields) : FieldsOf(2)[k] # last.fields[k]
    /\ \E k \in DOMAIN FieldsOf(2) : k \notin DOMAIN last.fields
    /\ \A k \in DOMAIN last.fields : FieldsOf(3)[k] = last.fields[k]

\* C4: a line emitted through the normal path is a JSON object whose keys
\* are exactly level, message, time and the keys of the logger's field set;
\* each field key carries the field's value (also when the key is level),
\* level is otherwise the display name of the call and message its text.
C4_LineKeys ==
    [][ (/\ Stepped
         /\ last'.op \in Emissions
         /\ SeverityOf(last'.op) >= loggers[last'.recv].level
         /\ ~HasUnencodable(FieldsOf(last'.recv))) =>
            LET F == FieldsOf(last'.recv)
                w == loggers[last'.recv].output
                line == NewLine(w)
            IN  /\ WroteOne(w)
                /\ line.kind = "json"
                /\ DOMAIN Parse(line) = Reserved \cup DOMAIN F
                /\ Len(line.body) = Cardinality(Reserved \cup DOMAIN F)
                /\ \A k \in DOMAIN F : ParsedValue(line, k) = F[k].s
                /\ "level" \notin DOMAIN F => ParsedValue(line, "level") = DisplayName(last'.op)
                /\ ParsedValue(line, "message") = last'.msg
      ]_vars

\* a logger whose fields are level and req_id has emitted a line
C4_Witness ==
    /\ last.op = "Error"
    /\ DOMAIN FieldsOf(last.recv) = {"level", "req_id"}
    /\ ~HasUnencodable(FieldsOf(last.recv))
    /\ Len(sinks[loggers[last.recv].output]) = 1
    /\ sinks[loggers[last.recv].output][1].kind = "json"

\* C5 as stated: with an unencodable value in the field set, every emission
\* call, whatever its severity, writes the fallback record.
C5_FallbackWhateverSeverity ==
    [][ (/\ Stepped
         /\ last'.op \in Emissions
         /\ HasUnencodable(FieldsOf(last'.recv))) =>
            LET lg == loggers[last'.recv]
            IN  /\ WroteOne(lg.output)
                /\ IsFallback(NewLine(lg.output), Format(lg.timeFormat, ncalls))
      ]_vars

\* C5 amended: with an unencodable value in the field set, an emission call
\* at or above the threshold writes exactly the fallback record to the
\* logger's sink and no normal record; one below the threshold writes
\* nothing; Debug, Info, Warn and Error leave the process running.
C5_FallbackWhenPassing ==
    [][ (/\ Stepped
         /\ last'.op \in Emissions
         /\ HasUnencodable(FieldsOf(last'.recv))) =>
            LET lg == loggers[last'.recv]
            IN  /\ IF SeverityOf(last'.op) >= lg.level
                   THEN /\ WroteOne(lg.output)
                        /\ IsFallback(NewLine(lg.output), Format(lg.timeFormat, ncalls))
                   ELSE WroteNothing
                /\ last'.op \in {"Debug", "Info", "Warn", "Error"} => proc' = proc
      ]_vars

\* a logger holding a channel has logged at Warn: the fallback record is in its sink
C5_Witness ==
    /\ last.op = "Warn"
    /\ HasUnencodable(FieldsOf(last.recv))
    /\ Len(sinks[loggers[last.recv].output]) = 1
    /\ sinks[loggers[last.recv].output][1].kind = "text"
    /\ Running

\* C6 as stated: Fatal, whatever the threshold, writes exactly one line and
\* leaves the process exited with a non-zero status.
C6_FatalAlwaysWrites ==
    [][ (Stepped /\ last'.op = "Fatal") =>
            /\ WroteOne(loggers[last'.recv].output)
            /\ proc'.status = "exited"
            /\ proc'.code # 0
      ]_vars

\* C6 amended: Fatal leaves the process exited with a non-zero status, having
\* written exactly one line when the threshold is Fatal or lower and none
\* when the threshold is Panic; an exited process takes no further step.
C6_FatalExits ==
    [][ /\ (Stepped /\ last'.op = "Fatal") =>
              /\ proc'.status = "exited"
              /\ proc'.code # 0
              /\ IF loggers[last'.recv].level <= LevelFatal
                 THEN WroteOne(loggers[last'.recv].output)
                 ELSE WroteNothing
        /\ proc.status # "exited"
      ]_vars

\* Fatal has written its line and the process has exited
C6_Witness ==
    /\ last.op = "Fatal"
    /\ proc.status = "exited"
    /\ TotalLines = 1
    /\ ncalls = 1

\* C9: SetLevel(v) right after SetLevel(v) on the same logger changes nothing;
\* AddField(k, v) on the logger AddField(k, v) returned, or once more on the
\* same receiver, returns a field set equal to the first one.
C9_Idempotence ==
    [][ /\ (/\ Stepped
            /\ last'.op = "SetLevel" /\ last.op = "SetLevel"
            /\ last'.recv = last.recv /\ last'.level = last.level) =>
              <<loggers, mu, stdlogs, maps, sinks, proc>>' =
                  <<loggers, mu, stdlogs, maps, sinks, proc>>
        /\ (/\ Stepped
            /\ last'.op = "AddField" /\ last.op = "AddField"
            /\ last'.key = last.key /\ last'.value = last.value
            /\ last'.recv \in {last.recv, last.ret}) =>
              maps'[loggers'[last'.ret].fields] = FieldsOf(last.ret)
      ]_vars

\* AddField(k, v) chained on its own result, on a receiver that held k already
C9_Witness ==
    /\ last.op = "AddField"
    /\ last.recv = 3
    /\ Len(loggers) = 4
    /\ last.key \in DOMAIN FieldsOf(2)
    /\ FieldsOf(2)[last.key] # last.value
    /\ FieldsOf(3) = FieldsOf(4)

\* C10: a derived logger starts with its parent's threshold, sink and time
\* format; a setter changes the Logger it is called on and no other; and an
\* emission writes to the sink its own logger holds, whatever writer the
\* inner log.Logger shared with its relatives has been pointed at.
C10_DerivedIndependent ==
    [][ /\ (Stepped /\ last'.op \in Derivations) =>
              /\ loggers'[last'.ret].level = loggers[last'.recv].level
              /\ loggers'[last'.ret].output = loggers[last'.recv].output
              /\ loggers'[last'.ret].timeFormat = loggers[last'.recv].timeFormat
        /\ (Stepped /\ last'.op \in Setters) =>
              \A l \in (DOMAIN loggers) \ {last'.recv} : loggers'[l] = loggers[l]
        /\ (Stepped /\ last'.op \in Emissions /\ ~WroteNothing) =>
              WroteOne(loggers[last'.recv].output)
      ]_vars

\* the parent emits to stdout after SetOutput(buffer) on its child redirected
\* the inner log.Logger they share
C10_Witness ==
    /\ last.op = "Info"
    /\ last.recv = defaultLogger
    /\ Len(loggers) = 2
    /\ loggers[1].logger = loggers[2].logger
    /\ loggers[2].output = "buffer"
    /\ stdlogs[loggers[1].logger] = "buffer"
    /\ loggers[1].output = "stdout"
    /\ Len(sinks["stdout"]) = 1
    /\ Len(sinks["buffer"]) = 0

----------------------------------------------------------------------------
(* Vocabulary of the properties of SpecConc *)

\* the steps a method takes between l.mu.Lock() and l.mu.Unlock()
LockedSection ==
    {"setlevel", "setoutput", "setoutput_inner", "settimeformat", "clone_fields",
     "clone_level", "clone_output", "clone_timeFormat", "put", "unlock"}

\* goroutine t is about to read l.level in log while u is about to write it
LevelRace(t, u) ==
    /\ t # u
    /\ thr[t].pc = "log_level"
    /\ thr[u].pc = "setlevel"
    /\ thr[t].recv = thr[u].recv

\* goroutine t is about to range over a map that u is about to write
FieldsRace(t, u) ==
    /\ t # u
    /\ thr[t].pc = "log_fields"
    /\ thr[u].pc = "put"
    /\ loggers[thr[t].recv].fields = loggers[thr[u].ret].fields

\* C7 as stated, for the field set: an emission reading its logger's field
\* set while a field-deriving call on that same logger is at its write is a
\* conflicting access to one map.
C7_FieldSetRaceByConstruction ==
    \A t, u \in Threads :
        (/\ t # u
         /\ thr[t].pc = "log_fields"
         /\ thr[u].pc = "put"
         /\ thr[t].recv = thr[u].recv) =>
            loggers[thr[t].recv].fields = loggers[thr[u].ret].fields

\* C7 amended: the unlocked read of level in log can overlap SetLevel's write
\* of level on the same logger (the witness), but no read of a field set in
\* log overlaps a write of that map: AddField and AddFields write only the
\* fresh map of a clone that no other goroutine has yet.
C7_NoFieldSetRace == \A t, u \in Threads : ~FieldsRace(t, u)

\* log is at its read of l.level, holding no lock, while SetLevel on the same
\* logger holds the lock and is at its write
C7_Witness ==
    \E t, u \in Threads :
        /\ LevelRace(t, u)
        /\ mu[thr[t].recv] = u

\* C8: at most one goroutine is inside the locked section of a logger, the
\* receiver of a field-deriving call is unchanged while the call holds the
\* lock, and the logger the call returns has the threshold, sink, time
\* format and (merged with the argument) field set the receiver had at the
\* instant the call took the lock.
C8_ConfigCallsAtomic ==
    /\ \A t, u \in Threads :
          (t # u /\ thr[t].pc \in LockedSection /\ thr[u].pc \in LockedSection) =>
              thr[t].recv # thr[u].recv
    /\ \A t \in Threads :
          (thr[t].pc = "unlock" /\ thr[t].op = "derive") =>
              LET c == loggers[thr[t].ret]
              IN  /\ loggers[thr[t].recv] = thr[t].snap
                  /\ maps[loggers[thr[t].recv].fields] = thr[t].snapFields
                  /\ c.level = thr[t].snap.level
                  /\ c.output = thr[t].snap.output
                  /\ c.timeFormat = thr[t].snap.timeFormat
                  /\ maps[c.fields] =
                        [k \in (DOMAIN thr[t].snapFields) \cup (DOMAIN thr[t].arg) |->
                            IF k \in DOMAIN thr[t].arg THEN thr[t].arg[k]
                            ELSE thr[t].snapFields[k]]

\* a field-deriving call is about to return its clone while a SetLevel on the
\* same receiver waits for the lock
C8_Witness ==
    \E t, u \in Threads :
        /\ thr[t].pc = "unlock" /\ thr[t].op = "derive"
        /\ thr[u].pc = "lock" /\ thr[u].op = "SetLevel"
        /\ thr[u].recv = thr[t].recv
        /\ thr[u].level # loggers[thr[t].ret].level
        /\ DOMAIN maps[loggers[thr[t].ret].fields] # {}

====
